---- MODULE Spec2Model ----
(***************************************************************************)
(* Lifecycle controller of the external Antigravity application:           *)
(* process discovery and classification, closeAntigravity, startAntigravity *)
(* and _waitForProcessExit (src/unnamed/part_000); the master key of the    *)
(* credential store, getOrGenerateMasterKey (src/unnamed/part_001); the     *)
(* poll timer of CloudMonitorService                                       *)
(* (src/src/services/CloudMonitorService.ts).                              *)
(*                                                                         *)
(* Strings are sequences of one-character strings so that toLowerCase and  *)
(* includes are computed, character by character, as the code computes     *)
(* them.                                                                   *)
(***************************************************************************)
EXTENDS Integers, Sequences, FiniteSets, TLC

\* ------------------------------------------------------------------ bounds
\* pids of the OS process table are 1..MaxPid
MaxPid == 3
\* timeoutMs ranges over 0, 250, ..., MaxTimeoutTicks * 250
MaxTimeoutTicks == 4
\* one OS process query takes at most MaxQueryTicks * 250 ms
MaxQueryTicks == 1
\* the part of an executable path after its first directories has at most
\* MaxRestLen characters
MaxRestLen == 3
\* crypto.randomBytes(32) draws one of MaxKeys keys
MaxKeys == 2
\* getOrGenerateMasterKey is called by MaxKeyCallers callers
MaxKeyCallers == 2
\* setInterval is called at most MaxTimers times
MaxTimers == 3
\* poll() is started at most MaxPolls times
MaxPolls == 4

\* ------------------------------------------------------------- characters
UpperToLower ==
  [c \in {"A","B","C","D","E","F","G","H","I","J","K","L","M",
          "N","O","P","Q","R","S","T","U","V","W","X","Y","Z"} |->
     CASE c = "A" -> "a" [] c = "B" -> "b" [] c = "C" -> "c" [] c = "D" -> "d"
       [] c = "E" -> "e" [] c = "F" -> "f" [] c = "G" -> "g" [] c = "H" -> "h"
       [] c = "I" -> "i" [] c = "J" -> "j" [] c = "K" -> "k" [] c = "L" -> "l"
       [] c = "M" -> "m" [] c = "N" -> "n" [] c = "O" -> "o" [] c = "P" -> "p"
       [] c = "Q" -> "q" [] c = "R" -> "r" [] c = "S" -> "s" [] c = "T" -> "t"
       [] c = "U" -> "u" [] c = "V" -> "v" [] c = "W" -> "w" [] c = "X" -> "x"
       [] c = "Y" -> "y" [] c = "Z" -> "z"]

\* String.prototype.toLowerCase
toLowerCase(s) ==
  [i \in 1..Len(s) |-> IF s[i] \in DOMAIN UpperToLower THEN UpperToLower[s[i]] ELSE s[i]]

\* String.prototype.includes
includes(s, sub) ==
  \E i \in 0..(Len(s) - Len(sub)) : SubSeq(s, i + 1, i + Len(sub)) = sub

\* String.prototype.startsWith
startsWith(s, pre) ==
  Len(s) >= Len(pre) /\ SubSeq(s, 1, Len(pre)) = pre

\* line.trim().split(/\s+/): the maximal runs of non-blank characters
tokenStarts(s) == {i \in 1..Len(s) : s[i] # " " /\ (i = 1 \/ s[i - 1] = " ")}
tokenEnd(s, i) ==
  CHOOSE j \in i..Len(s) :
    /\ \A k \in i..j : s[k] # " "
    /\ (j = Len(s) \/ s[j + 1] = " ")
nthStart(s, n) ==
  CHOOSE i \in tokenStarts(s) : Cardinality({j \in tokenStarts(s) : j < i}) = n - 1
splitWs(s) ==
  [n \in 1..Cardinality(tokenStarts(s)) |->
     SubSeq(s, nthStart(s, n), tokenEnd(s, nthStart(s, n)))]

\* parts.join(' ')
joinSp(parts) ==
  LET acc[n \in 0..Len(parts)] ==
        IF n = 0 THEN <<>>
        ELSE IF n = 1 THEN parts[1]
        ELSE acc[n - 1] \o <<" ">> \o parts[n]
  IN acc[Len(parts)]

\* ------------------------------------------------- literals of the source
sAntigravity    == <<"A","n","t","i","g","r","a","v","i","t","y">>
sLantigravity   == <<"a","n","t","i","g","r","a","v","i","t","y">>
sManager        == <<"M","a","n","a","g","e","r">>
sLmanager       == <<"m","a","n","a","g","e","r">>
sAntigravityExe == sAntigravity \o <<".","e","x","e">>
sAntigravityApp == sAntigravity \o <<".","a","p","p">>
sLantigravityManager == sLantigravity \o <<" ">> \o sLmanager

\* ------------------------------------------------ process images (inputs)
\* name: the image name (Win32 Name column, ps comm column);
\* cmdline: the command line (Win32 CommandLine column, ps args column).
Images ==
  << \* 1: the manager application itself
     [name    |-> sAntigravity \o <<" ">> \o sManager,
      cmdline |-> <<"/">> \o sAntigravity \o <<" ">> \o sManager],
     \* 2: the target application, Windows style
     [name    |-> sAntigravityExe,
      cmdline |-> <<"C",":","\\">> \o sAntigravityExe],
     \* 3: the target application, lowercase binary with an argument
     [name    |-> sLantigravity,
      cmdline |-> <<"/","b","/">> \o sLantigravity \o <<" ","-","s">>],
     \* 4: an unrelated process
     [name    |-> <<"b","a","s","h">>,
      cmdline |-> <<"b","a","s","h">>],
     \* 5: the target application as a macOS bundle
     [name    |-> sAntigravity,
      cmdline |-> <<"/">> \o sAntigravityApp \o <<"/">> \o sAntigravity],
     \* 6: the target application whose command line cannot be read
     [name    |-> sAntigravityExe,
      cmdline |-> <<>>],
     \* 7: a manager helper, upper case and two blanks between the words
     [name    |-> <<"A","N","T","I","G","R","A","V","I","T","Y">>,
      cmdline |-> <<"A","N","T","I","G","R","A","V","I","T","Y"," "," ">> \o sManager],
     \* 8: a look-alike: mentions both words but not the phrase
     [name    |-> sLantigravity \o <<"-">> \o sLmanager,
      cmdline |-> sLantigravity \o <<"-">> \o sLmanager \o <<" ","-","x">>],
     \* 9: a helper of the manager, installed in the manager's directory
     \*    under the executable name of the target
     [name    |-> sAntigravityExe,
      cmdline |-> <<"C",":","\\">> \o sAntigravity \o <<" ">> \o sManager
                  \o <<"\\">> \o sAntigravityExe] >>

ImageIds == 1..Len(Images)
Pids == 1..MaxPid
Platforms == {"darwin", "win32", "linux"}

VARIABLES
  platform,   \* process.platform
  wsl,        \* isWsl(): the compatibility layer detector
  image,      \* OS process table: pid -> index into Images
  alive,      \* OS process table: the pids that are running
  query,      \* the last isProcessRunning() evaluation
  cur,        \* the closeAntigravity call that holds the JS thread, or 0
  close,      \* the closeAntigravity calls: caller -> state of the call
  start,      \* the startAntigravity call
  wait,       \* the _waitForProcessExit call
  now,        \* Date.now(), in milliseconds
  exitTime,   \* the time at which a process last exited by itself
  cachedMasterKey,  \* the module variable: 0 is null, else the key
  keychain,   \* the keychain entry of the service: 0 is none, else the key
  keyfile,    \* the fallback file master.key: 0 is absent or empty
  kcall,      \* the getOrGenerateMasterKey calls: caller -> state of the call
  keyGen,     \* how many keys the process has generated
  intervalId, \* CloudMonitorService.intervalId: 0 is null, else the timer
  timers,     \* the interval timers that are scheduled in the event loop
  monitor     \* the polls and the last operation of CloudMonitorService

\* process.pid of the manager
currentPid == 1

\* --------------------------------------------------------- ProcessDiscovery
\* Outcomes of the OS queries of one discovery: the modern (Get-CimInstance)
\* and the legacy (Get-WmiObject) structured query, and the ps snapshot.
QueryOutcomes == [cim : BOOLEAN, wmi : BOOLEAN, ps : BOOLEAN]

\* getRawOutput running the legacy query whatever the modern one gave
getRawOutputAlwaysLegacy(pf, o) ==
  IF pf = "win32"
  THEN [threw |-> ~o.cim /\ ~o.wmi, modern |-> TRUE, legacy |-> TRUE]
  ELSE [threw |-> ~o.ps, modern |-> FALSE, legacy |-> FALSE]

\* getRawOutput: which queries ran and whether the call threw
getRawOutput(pf, o) ==
  IF pf = "win32"
  THEN IF o.cim THEN [threw |-> FALSE, modern |-> TRUE, legacy |-> FALSE]
       ELSE IF o.wmi THEN [threw |-> FALSE, modern |-> TRUE, legacy |-> TRUE]
       ELSE [threw |-> TRUE, modern |-> TRUE, legacy |-> TRUE]
  ELSE [threw |-> ~o.ps, modern |-> FALSE, legacy |-> FALSE]

\* The rows the structured query returns: Name like 'Antigravity%'
\* (the LIKE operator does not distinguish case).
wqlNameLike(img) == startsWith(toLowerCase(img.name), sLantigravity)

\* One CSV row parsed: cmd is the CommandLine field, or the Name field
\* when the CommandLine field is empty.
csvRecord(pid, img) ==
  [pid |-> pid, name |-> img.name,
   cmd |-> IF img.cmdline = <<>> THEN img.name ELSE img.cmdline]

\* One ps row "pid comm args": parts[1..] are the blank-separated tokens
\* after the pid and rest is parts.slice(1).join(' ').
psParts(img) == splitWs(img.name \o <<" ">> \o img.cmdline)
psRest(img) == joinSp(psParts(img))
psKept(img) ==
  /\ Len(psParts(img)) + 1 >= 2
  /\ includes(toLowerCase(psRest(img)), sLantigravity)
psRecord(pid, img) ==
  [pid |-> pid, name |-> psParts(img)[1], cmd |-> psRest(img)]

\* The rows parsed from the output for one process of the table: the
\* elements pushed onto processList (none or one)
parsedRows(pf, pid, img) ==
  IF pf = "win32"
  THEN (IF wqlNameLike(img) THEN <<csvRecord(pid, img)>> ELSE <<>>)
  ELSE (IF psKept(img) THEN <<psRecord(pid, img)>> ELSE <<>>)

\* ------------------------------------------------------------ ProcessFilter
\* the predicate of processList.filter(...), with the self exclusion removed
isTargetNoSelfExclusion(p, pf, self) ==
  LET cmdLower == toLowerCase(p.cmd) IN
    IF includes(cmdLower, sLantigravityManager) THEN FALSE
    ELSE IF pf = "win32"
         THEN \/ includes(p.cmd, sAntigravityExe)
              \/ (includes(cmdLower, sLantigravity) /\ ~includes(cmdLower, sLmanager))
    ELSE IF pf = "darwin"
         THEN \/ includes(p.cmd, sAntigravityApp)
              \/ (includes(p.cmd, sAntigravity) /\ ~includes(cmdLower, sLmanager))
    ELSE includes(p.cmd, sAntigravity) \/ includes(cmdLower, sLantigravity)

\* the predicate of processList.filter(...), with the exclusion of the
\* manager's own processes removed
isTargetNoManagerExclusion(p, pf, self) ==
  LET cmdLower == toLowerCase(p.cmd) IN
    IF p.pid = self THEN FALSE
    ELSE IF pf = "win32"
         THEN \/ includes(p.cmd, sAntigravityExe)
              \/ (includes(cmdLower, sLantigravity) /\ ~includes(cmdLower, sLmanager))
    ELSE IF pf = "darwin"
         THEN \/ includes(p.cmd, sAntigravityApp)
              \/ (includes(p.cmd, sAntigravity) /\ ~includes(cmdLower, sLmanager))
    ELSE includes(p.cmd, sAntigravity) \/ includes(cmdLower, sLantigravity)

\* the predicate of processList.filter(...)
isTarget(p, pf, self) ==
  LET cmdLower == toLowerCase(p.cmd) IN
    IF p.pid = self THEN FALSE
    ELSE IF includes(cmdLower, sLantigravityManager) THEN FALSE
    ELSE IF pf = "win32"
         THEN \/ includes(p.cmd, sAntigravityExe)
              \/ (includes(cmdLower, sLantigravity) /\ ~includes(cmdLower, sLmanager))
    ELSE IF pf = "darwin"
         THEN \/ includes(p.cmd, sAntigravityApp)
              \/ (includes(p.cmd, sAntigravity) /\ ~includes(cmdLower, sLmanager))
    ELSE includes(p.cmd, sAntigravity) \/ includes(cmdLower, sLantigravity)

\* Array.prototype.filter with the predicate above
classify(list, pf, self) == SelectSeq(list, LAMBDA p : isTarget(p, pf, self))

\* The filtered rows of every process the table can hold.  The filter
\* works record by record, so the filtered list is the concatenation, in the
\* order of the output, of the filtered rows of the running processes.
rowsUpTo[pf \in Platforms, i \in ImageIds, n \in 0..MaxPid] ==
  IF n = 0 THEN <<>>
  ELSE Append(rowsUpTo[pf, i, n - 1],
              classify(parsedRows(pf, n, Images[i]), pf, currentPid))

imagesUpTo[pf \in Platforms, i \in 0..Len(Images)] ==
  IF i = 0 THEN <<>>
  ELSE Append(imagesUpTo[pf, i - 1], rowsUpTo[pf, i, MaxPid])

filteredRows ==
  [darwin |-> imagesUpTo["darwin", Len(Images)],
   win32  |-> imagesUpTo["win32", Len(Images)],
   linux  |-> imagesUpTo["linux", Len(Images)]]

RECURSIVE filteredList(_, _, _, _)
filteredList(pf, tbl, live, pid) ==
  IF pid > MaxPid THEN <<>>
  ELSE (IF pid \in live THEN filteredRows[pf][tbl[pid]][pid] ELSE <<>>)
       \o filteredList(pf, tbl, live, pid + 1)

\* getRunningAntigravityProcesses: a failed OS query is caught and gives []
getRunningAntigravityProcesses(pf, tbl, live, o) ==
  LET raw == getRawOutput(pf, o) IN
    [threw  |-> FALSE,
     failed |-> raw.threw,
     modern |-> raw.modern,
     legacy |-> raw.legacy,
     list   |-> IF raw.threw THEN <<>> ELSE filteredList(pf, tbl, live, 1)]

\* ------------------------------------------------------ isProcessRunning
\* the variant that reports running only from two processes on
isProcessRunningOffByOne(d) ==
  IF d.threw THEN [threw |-> FALSE, value |-> FALSE]
  ELSE [threw |-> FALSE, value |-> Len(d.list) > 1]

\* isProcessRunning, given the result d of the discovery it awaited
isProcessRunning(d) ==
  IF d.threw THEN [threw |-> FALSE, value |-> FALSE]
  ELSE [threw |-> FALSE, value |-> Len(d.list) > 0]

NoQuery == [done |-> FALSE, threw |-> FALSE, value |-> FALSE, failed |-> FALSE,
            list |-> <<>>, afterClose |-> FALSE,
            modern |-> FALSE, legacy |-> FALSE,
            cimFailed |-> FALSE, wmiFailed |-> FALSE, discThrew |-> FALSE]

vars == <<platform, wsl, image, alive, query, cur, close, start, wait, now, exitTime,
          cachedMasterKey, keychain, keyfile, kcall, keyGen,
          intervalId, timers, monitor>>
keyVars == <<cachedMasterKey, keychain, keyfile, kcall, keyGen>>
monVars == <<intervalId, timers, monitor>>
osVars == <<platform, wsl, image>>
closeVars == <<cur, close>>
startVars == <<start>>
waitVars == <<wait, now, exitTime>>

\* the two overlapping closeAntigravity calls
Callers == {1, 2}

\* One call of isProcessRunning() by the application
Query ==
  /\ cur = 0
  /\ \E o \in QueryOutcomes :
       LET d == getRunningAntigravityProcesses(platform, image, alive, o)
           r == isProcessRunning(d)
       IN query' = [done |-> TRUE, threw |-> r.threw, value |-> r.value,
                    failed |-> d.failed, list |-> d.list,
                    afterClose |-> \E c \in Callers : close[c].pc = "done",
                    modern |-> d.modern, legacy |-> d.legacy,
                    cimFailed |-> d.modern /\ ~o.cim,
                    wmiFailed |-> d.legacy /\ ~o.wmi,
                    discThrew |-> d.threw]
  /\ UNCHANGED <<monVars, keyVars, osVars, alive, closeVars, startVars, waitVars>>

\* --------------------------------------------------------- closeAntigravity
\* An empty catch block whose handler rethrows
catchIgnoreRethrows(threw) == threw

\* An empty (or log-only) catch block: does the error leave the try statement
catchIgnore(threw) == FALSE

\* process.kill(pid, 'SIGKILL'): the process exits; throws when there is no
\* such process
processKill(pid, live) ==
  [threw |-> pid \notin live, live |-> live \ {pid}]

\* the force-kill loop leaving at the first kill that fails
killLoopNextStopsOnFailure(threw, last) ==
  IF last \/ threw THEN "done" ELSE "kill"

\* the force-kill loop: the failure of one kill is ignored and the loop goes
\* on with the next record until the last one
killLoopNext(threw, last) ==
  IF last THEN "done" ELSE "kill"

\* the length check after the verification discovery, taking "nothing
\* found" for a failure of the sequence
afterVerifyEmptyThrows(list) ==
  [threw |-> Len(list) = 0, next |-> "kill"]

\* the length check after the verification discovery
afterVerify(list) ==
  [threw |-> FALSE, next |-> IF Len(list) = 0 THEN "done" ELSE "kill"]

\* the processes the broad-match fallback command addresses:
\* taskkill /F /IM "Antigravity.exe" /T, or pkill -9 -f Antigravity
broadMatch(pf, tbl, live) ==
  {p \in live : IF pf = "win32"
                THEN toLowerCase(Images[tbl[p]].name) = toLowerCase(sAntigravityExe)
                ELSE includes(Images[tbl[p]].cmdline, sAntigravity)}

IdleCall == [pc |-> "idle", graceful |-> "none", paused |-> FALSE,
             verified |-> FALSE, failed |-> FALSE, snap |-> <<>>, idx |-> 1,
             kills |-> <<>>, fallback |-> 0, raised |-> FALSE, after |-> FALSE]

\* The outer catch of closeAntigravity: log, then one broad-match kill whose
\* own failure is ignored.  fbOK is the outcome of that command.
outerCatch(st, fbOK) ==
  [st EXCEPT !.pc = "done", !.fallback = @ + 1, !.raised = catchIgnore(~fbOK)]

\* Stage 1: the graceful quit request (osascript / taskkill without /F).
\* gOK is the outcome of the request, fbOK of the fallback command.
CloseGraceful(c) ==
  /\ cur = 0
  /\ close[c].pc = "idle"
  /\ \E gOK \in BOOLEAN, fbOK \in BOOLEAN :
       LET st == [close[c] EXCEPT !.after = \E d \in Callers : close[d].pc = "done"]
       IN IF platform \in {"darwin", "win32"}
          THEN IF gOK
               THEN \* the request returned: await the timer
                    /\ close' = [close EXCEPT ![c] = [st EXCEPT !.pc = "pause", !.graceful = "ok"]]
                    /\ cur' = 0
                    /\ alive' = alive
               ELSE IF catchIgnore(TRUE)
               THEN /\ close' = [close EXCEPT ![c] = outerCatch([st EXCEPT !.graceful = "failed"], fbOK)]
                    /\ cur' = 0
                    /\ alive' = IF fbOK THEN alive \ broadMatch(platform, image, alive) ELSE alive
               ELSE \* the failure is swallowed: no pause, go on synchronously
                    /\ close' = [close EXCEPT ![c] = [st EXCEPT !.pc = "discover", !.graceful = "failed"]]
                    /\ cur' = c
                    /\ alive' = alive
          ELSE /\ close' = [close EXCEPT ![c] = [st EXCEPT !.pc = "discover"]]
               /\ cur' = c
               /\ alive' = alive
  /\ UNCHANGED <<monVars, keyVars, osVars, query, startVars, waitVars>>

\* Stage 2: the timer of the fixed pause fires (2000 ms / 1000 ms)
ClosePause(c) ==
  /\ cur = 0
  /\ close[c].pc = "pause"
  /\ close' = [close EXCEPT ![c] = [@ EXCEPT !.pc = "discover", !.paused = TRUE]]
  /\ cur' = c
  /\ UNCHANGED <<monVars, keyVars, osVars, alive, query, startVars, waitVars>>

\* Stage 3: the verification discovery; the call then awaits its promise
CloseVerify(c) ==
  /\ cur = c
  /\ close[c].pc = "discover"
  /\ \E o \in QueryOutcomes, fbOK \in BOOLEAN :
       LET d == getRunningAntigravityProcesses(platform, image, alive, o)
           st == [close[c] EXCEPT !.verified = TRUE, !.failed = d.failed, !.snap = d.list]
       IN IF d.threw
          THEN /\ close' = [close EXCEPT ![c] = outerCatch(st, fbOK)]
               /\ alive' = IF fbOK THEN alive \ broadMatch(platform, image, alive) ELSE alive
          ELSE /\ close' = [close EXCEPT ![c] = [st EXCEPT !.pc = "resume"]]
               /\ alive' = alive
  /\ cur' = 0
  /\ UNCHANGED <<monVars, keyVars, osVars, query, startVars, waitVars>>

\* The call resumes with targetProcessList: return when it is empty
CloseResume(c) ==
  /\ cur = 0
  /\ close[c].pc = "resume"
  /\ \E fbOK \in BOOLEAN :
       LET v == afterVerify(close[c].snap)
       IN IF v.threw
          THEN /\ close' = [close EXCEPT ![c] = outerCatch(close[c], fbOK)]
               /\ cur' = 0
               /\ alive' = IF fbOK THEN alive \ broadMatch(platform, image, alive) ELSE alive
          ELSE /\ close' = [close EXCEPT ![c] = [@ EXCEPT !.pc = v.next]]
               /\ cur' = IF v.next = "kill" THEN c ELSE 0
               /\ alive' = alive
  /\ UNCHANGED <<monVars, keyVars, osVars, query, startVars, waitVars>>

\* Stage 4: one iteration of the force-kill loop
CloseKill(c) ==
  /\ cur = c
  /\ close[c].pc = "kill"
  /\ \E fbOK \in BOOLEAN :
       LET st   == close[c]
           pid  == st.snap[st.idx].pid
           k    == processKill(pid, alive)
           last == st.idx = Len(st.snap)
           st2  == [st EXCEPT !.kills = Append(@, [pid |-> pid, ok |-> ~k.threw]),
                              !.idx = @ + 1]
       IN IF catchIgnore(k.threw)
          THEN /\ close' = [close EXCEPT ![c] = outerCatch(st2, fbOK)]
               /\ cur' = 0
               /\ alive' = IF fbOK THEN k.live \ broadMatch(platform, image, k.live) ELSE k.live
          ELSE /\ close' = [close EXCEPT ![c] = [st2 EXCEPT !.pc = killLoopNext(k.threw, last)]]
               /\ cur' = IF killLoopNext(k.threw, last) = "done" THEN 0 ELSE c
               /\ alive' = k.live
  /\ UNCHANGED <<monVars, keyVars, osVars, query, startVars, waitVars>>

\* A process other than the manager exits by itself (for instance as the
\* delayed effect of a quit request)
ProcExit(p) ==
  /\ p \in alive
  /\ p # currentPid
  /\ alive' = alive \ {p}
  /\ exitTime' = now
  /\ UNCHANGED <<monVars, keyVars, osVars, query, closeVars, startVars, wait, now>>

\* --------------------------------------------------------- startAntigravity
\* the check of the running state that never returns early
startReturnsEarlyNever(running) == FALSE

\* `if (await isProcessRunning()) return`
startReturnsEarly(running) == running

\* openUri: the command that dispatches the URI, and the boolean returned
\* (a failed dispatch is caught and gives false)
openUri(pf, w, dispatchOK) ==
  [threw |-> FALSE,
   value |-> dispatchOK,
   via   |-> IF pf = "darwin" THEN "open"
             ELSE IF pf = "win32" THEN "start"
             ELSE IF w THEN "cmd.exe"
             ELSE "xdg-open"]

\* The executable launch and its catch block, which rethrows.  failure is
\* "none", "sync" (the call itself throws or its promise rejects) or "async"
\* (the failure is reported after the call has returned).  The launches of
\* macOS, Windows and the compatibility layer are awaited, so every failure
\* of theirs rejects; exec() of native Linux is not awaited: it throws only
\* a synchronous failure.
launchExecutable(pf, w, failure) ==
  IF pf = "darwin" THEN [via |-> "open -a", threw |-> failure # "none"]
  ELSE IF pf = "win32" THEN [via |-> "start", threw |-> failure # "none"]
  ELSE IF w THEN [via |-> "cmd.exe", threw |-> failure # "none"]
  ELSE [via |-> "exec", threw |-> failure = "sync"]

LaunchFailures == {"none", "sync", "async"}

\* String.prototype.toUpperCase, on one lower-case letter
LowerToUpper ==
  [c \in {UpperToLower[u] : u \in DOMAIN UpperToLower} |->
     CHOOSE u \in DOMAIN UpperToLower : UpperToLower[u] = c]

\* .replace(/^\/mnt\/([a-z])\//, (_, drive) => `${drive.toUpperCase()}:\\`)
replaceMntDrive(path) ==
  IF /\ Len(path) >= 7
     /\ SubSeq(path, 1, 5) = <<"/","m","n","t","/">>
     /\ path[6] \in DOMAIN LowerToUpper
     /\ path[7] = "/"
  THEN <<LowerToUpper[path[6]], ":", "\\">> \o SubSeq(path, 8, Len(path))
  ELSE path

\* .replace(/\//g, '\\')
replaceAllSlashes(s) == [i \in 1..Len(s) |-> IF s[i] = "/" THEN "\\" ELSE s[i]]

\* .replace('/', '\\'): only the first occurrence
replaceFirstSlash(s) ==
  [i \in 1..Len(s) |->
     IF s[i] = "/" /\ (\A j \in 1..(i - 1) : s[j] # "/") THEN "\\" ELSE s[i]]

\* the path translation that replaces only the first slash
toWinPathFirstSlashOnly(execPath) == replaceFirstSlash(replaceMntDrive(execPath))

\* winPath of the compatibility layer launch
toWinPath(execPath) == replaceAllSlashes(replaceMntDrive(execPath))

\* getAntigravityExecutablePath(): the paths the resolver may supply
sExamplePath ==
  <<"/","m","n","t","/","c","/","P","r","o","g","r","a","m"," ","F","i","l","e","s",
    "/","A","p","p","/","A","p","p",".","e","x","e">>
PathPrefixes ==
  { <<"/","m","n","t","/","c","/">>,
    <<"/","m","n","t","/","z","/">>,
    <<"/","m","n","t","/","C","/">>,
    <<"/","m","n","t","/","c","d","/">>,
    <<"/","m","n","t","/","c">>,
    <<"/","o","p","t","/">> }
PathRests == UNION {[1..n -> {"/", "a", " "}] : n \in 0..MaxRestLen}
ExecPaths == {pre \o rest : pre \in PathPrefixes, rest \in PathRests} \cup {sExamplePath}

NoStart == [pc |-> "idle", useUri |-> FALSE, running |-> FALSE,
            uriCalls |-> 0, uriOK |-> FALSE,
            execCalls |-> 0, execFailure |-> "none", via |-> "none",
            execPath |-> <<>>, winPath |-> <<>>,
            outcome |-> "none"]

\* startAntigravity(useUri) up to the decision on the running state
StartCheck ==
  /\ cur = 0
  /\ start.pc = "idle"
  /\ \E u \in BOOLEAN, o \in QueryOutcomes :
       LET d == getRunningAntigravityProcesses(platform, image, alive, o)
           r == isProcessRunning(d)
       IN start' = [start EXCEPT
                      !.useUri = u,
                      !.running = r.value,
                      !.pc = IF startReturnsEarly(r.value) THEN "done"
                             ELSE IF u THEN "uri" ELSE "exec",
                      !.outcome = IF startReturnsEarly(r.value) THEN "returned" ELSE @]
  /\ UNCHANGED <<monVars, keyVars, osVars, alive, query, closeVars, waitVars>>

\* the dispatch result that always goes on to the executable launch
afterUriFallsThrough(ok) == "exec"

\* `if (await openUri(uri)) return`: where the call goes after the dispatch
afterUri(ok) == IF ok THEN "done" ELSE "exec"

\* the URI-protocol dispatch: return when it succeeded, else fall through
StartUri ==
  /\ cur = 0
  /\ start.pc = "uri"
  /\ \E dispatchOK \in BOOLEAN :
       LET r == openUri(platform, wsl, dispatchOK)
       IN start' = [start EXCEPT
                      !.uriCalls = @ + 1,
                      !.uriOK = r.value,
                      !.pc = afterUri(r.value),
                      !.outcome = IF afterUri(r.value) = "done" THEN "returned" ELSE @]
  /\ UNCHANGED <<monVars, keyVars, osVars, alive, query, closeVars, waitVars>>

\* the executable launch
StartExec ==
  /\ cur = 0
  /\ start.pc = "exec"
  /\ \E failure \in LaunchFailures, execPath \in ExecPaths :
       LET r == launchExecutable(platform, wsl, failure)
       IN start' = [start EXCEPT
                      !.execCalls = @ + 1,
                      !.execFailure = failure,
                      !.via = r.via,
                      !.execPath = execPath,
                      !.winPath = IF r.via = "cmd.exe" THEN toWinPath(execPath) ELSE <<>>,
                      !.pc = "done",
                      !.outcome = IF r.threw THEN "threw" ELSE "returned"]
  /\ UNCHANGED <<monVars, keyVars, osVars, alive, query, closeVars, waitVars>>

\* ------------------------------------------------------ _waitForProcessExit
\* setTimeout(resolve, 500)
PollInterval == 500

\* the step of the clock
TickMs == PollInterval \div 2

\* the poll that returns while the process is running
pollResolvesInverted(running) == running

\* `if (!(await isProcessRunning())) return`
pollResolves(running) == ~running

\* a loop condition that never fails
withinBudgetAlways(t, startTime, timeoutMs) == TRUE

\* `while (Date.now() - startTime < timeoutMs)`
withinBudget(t, startTime, timeoutMs) == t - startTime < timeoutMs

NoWait == [pc |-> "idle", startTime |-> 0, timeoutMs |-> 0,
           ranAtStart |-> FALSE, evals |-> 0, allTrue |-> TRUE,
           last |-> FALSE, lastPollAt |-> 0, wake |-> 0,
           outcome |-> "none", doneAt |-> 0]

\* the images of the processes of the lifecycle specifications: the manager
\* under pid currentPid (installed as usual, or under a path that matches
\* the target), then targets and others in turn
DefaultImage(p) == IF p = currentPid THEN 1 ELSE ((p - 2) % 3) + 2

\* -------------------------------------------------- getOrGenerateMasterKey
Keys == 1..MaxKeys
KeyCallers == 1..MaxKeyCallers

NoKeyCall == [pc |-> "idle", hexKey |-> 0, key |-> 0, keytarSaved |-> FALSE,
              result |-> 0, outcome |-> "none"]

\* ----------------------------------------------------- CloudMonitorService
\* timers is the number of setInterval calls so far, polls the number of
\* poll() calls so far and running the number of them that have not
\* settled; op is the last operation, wasStarted whether intervalId was set
\* when it began, timersBefore and pollsBefore the timers and the polls at
\* that moment, fired the timer whose callback ran last
NoMonitor == [timers |-> 0, polls |-> 0, running |-> 0,
              op |-> "none", wasStarted |-> FALSE,
              timersBefore |-> {}, pollsBefore |-> 0, fired |-> 0]

\* the service as the class is loaded: `intervalId = null`
InitMonitorIdle ==
  /\ intervalId = 0
  /\ timers = {}
  /\ monitor = NoMonitor

\* before any call: no key in memory, in the keychain or in the file
InitKeyIdle ==
  /\ cachedMasterKey = 0
  /\ keychain = 0
  /\ keyfile = 0
  /\ kcall = [c \in KeyCallers |-> NoKeyCall]
  /\ keyGen = 0

LifecycleTables ==
  {t \in [Pids -> ImageIds] :
     /\ t[currentPid] \in {1, 3}
     /\ \A p \in Pids \ {currentPid} : t[p] = DefaultImage(p)}

InitOs ==
  /\ platform \in Platforms
  /\ wsl \in BOOLEAN
  /\ (wsl => platform = "linux")
  /\ alive \in {a \in SUBSET Pids : currentPid \in a}
  /\ now = 0
  /\ exitTime = 0

Init ==
  /\ InitOs
  /\ image \in LifecycleTables
  /\ query = NoQuery
  /\ cur = 0
  /\ close = [c \in Callers |-> IdleCall]
  /\ start = NoStart
  /\ wait = NoWait
  /\ InitKeyIdle
  /\ InitMonitorIdle

Next ==
  \/ \E c \in Callers : CloseGraceful(c)
  \/ \E c \in Callers : ClosePause(c)
  \/ \E c \in Callers : CloseVerify(c)
  \/ \E c \in Callers : CloseResume(c)
  \/ \E c \in Callers : CloseKill(c)
  \/ \E p \in Pids : ProcExit(p)
  \/ Query

Spec == Init /\ [][Next]_vars

\* ------------------------------------------------------------------- Start
NextStart ==
  \/ StartCheck
  \/ StartUri
  \/ StartExec
  \/ \E p \in Pids : ProcExit(p)

SpecStart == Init /\ [][NextStart]_vars

\* -------------------------------------------------------------------- Wait
Timeouts == {k * TickMs : k \in 0..MaxTimeoutTicks}
ClockCap == (MaxTimeoutTicks + MaxQueryTicks) * TickMs + PollInterval

\* _waitForProcessExit(timeoutMs) is called
WaitBegin ==
  /\ wait.pc = "idle"
  /\ \E t \in Timeouts :
       wait' = [wait EXCEPT !.pc = "loop", !.startTime = now, !.timeoutMs = t,
                            !.ranAtStart = filteredList(platform, image, alive, 1) # <<>>]
  /\ UNCHANGED <<monVars, keyVars, osVars, alive, query, closeVars, startVars, now, exitTime>>

\* the loop condition; when it holds, isProcessRunning() takes its snapshot
WaitPoll ==
  /\ wait.pc = "loop"
  /\ IF withinBudget(now, wait.startTime, wait.timeoutMs)
     THEN \E o \in QueryOutcomes :
            LET d == getRunningAntigravityProcesses(platform, image, alive, o)
                r == isProcessRunning(d)
            IN wait' = [wait EXCEPT !.pc = "queried", !.evals = @ + 1,
                                    !.last = r.value,
                                    !.allTrue = @ /\ r.value,
                                    !.lastPollAt = now]
     ELSE wait' = [wait EXCEPT !.pc = "done", !.outcome = "timeout", !.doneAt = now]
  /\ UNCHANGED <<monVars, keyVars, osVars, alive, query, closeVars, startVars, now, exitTime>>

\* the query has completed: return, or start the timer of the sleep
WaitResult ==
  /\ wait.pc = "queried"
  /\ wait' = IF pollResolves(wait.last)
             THEN [wait EXCEPT !.pc = "done", !.outcome = "resolved", !.doneAt = now]
             ELSE [wait EXCEPT !.pc = "sleep", !.wake = now + PollInterval]
  /\ UNCHANGED <<monVars, keyVars, osVars, alive, query, closeVars, startVars, now, exitTime>>

\* the timer of the sleep fires, not before its delay has elapsed
WaitWake ==
  /\ wait.pc = "sleep"
  /\ now >= wait.wake
  /\ wait' = [wait EXCEPT !.pc = "loop"]
  /\ UNCHANGED <<monVars, keyVars, osVars, alive, query, closeVars, startVars, now, exitTime>>

\* time passes while the call is suspended, at the query or at the sleep (the
\* loop condition is evaluated in the same turn as the statement before it);
\* a query completes within MaxQueryTicks
Tick ==
  /\ wait.pc \in {"queried", "sleep"}
  /\ now < ClockCap
  /\ (wait.pc = "queried" => now - wait.lastPollAt < MaxQueryTicks * TickMs)
  /\ now' = now + TickMs
  /\ UNCHANGED <<monVars, keyVars, osVars, alive, query, closeVars, startVars, wait, exitTime>>

NextWait ==
  \/ WaitBegin
  \/ WaitPoll
  \/ WaitResult
  \/ WaitWake
  \/ Tick
  \/ \E p \in Pids : ProcExit(p)

SpecWait == Init /\ [][NextWait]_vars

\* The event loop runs every continuation and timer that is ready, the OS
\* query completes, and time passes.
SpecWaitFair ==
  /\ SpecWait
  /\ WF_vars(WaitPoll) /\ WF_vars(WaitResult) /\ WF_vars(WaitWake) /\ WF_vars(Tick)

\* ---------------------------------------------------------------- Classify
\* Discovery and classification over every table of MaxPid processes.
InitClassify ==
  /\ InitOs
  /\ alive = Pids
  /\ image \in [Pids -> ImageIds]
  /\ query = NoQuery
  /\ cur = 0
  /\ close = [c \in Callers |-> IdleCall]
  /\ start = NoStart
  /\ wait = NoWait
  /\ InitKeyIdle
  /\ InitMonitorIdle

NextClassify == Query

SpecClassify == InitClassify /\ [][NextClassify]_vars

\* --------------------------------------------------------------- MasterKey
\* `if (cachedMasterKey) return cachedMasterKey`, else keytar.getPassword is
\* issued and the call is suspended at the await
KeyBegin(c) ==
  /\ kcall[c].pc = "idle"
  /\ kcall' = [kcall EXCEPT ![c] =
                 IF cachedMasterKey # 0
                 THEN [@ EXCEPT !.pc = "done", !.result = cachedMasterKey,
                                !.outcome = "returned"]
                 ELSE [@ EXCEPT !.pc = "reading"]]
  /\ UNCHANGED <<monVars, osVars, alive, query, closeVars, startVars, waitVars,
                 cachedMasterKey, keychain, keyfile, keyGen>>

\* keytar.getPassword reads the keychain in the background: it gives the
\* entry (null when there is none), or it fails
KeychainRead(c) ==
  /\ kcall[c].pc = "reading"
  /\ \E ok \in BOOLEAN :
       kcall' = [kcall EXCEPT ![c] =
                   [@ EXCEPT !.pc = "read", !.hexKey = IF ok THEN keychain ELSE 0]]
  /\ UNCHANGED <<monVars, osVars, alive, query, closeVars, startVars, waitVars,
                 cachedMasterKey, keychain, keyfile, keyGen>>

\* the call resumes after getPassword: the key of the keychain, else the
\* key of the fallback file, else a new random key, which is put in the
\* cache before keytar.setPassword is issued
KeyAfterRead(c) ==
  /\ kcall[c].pc = "read"
  /\ IF kcall[c].hexKey # 0
     THEN /\ cachedMasterKey' = kcall[c].hexKey
          /\ kcall' = [kcall EXCEPT ![c] =
                         [@ EXCEPT !.pc = "done", !.result = kcall[c].hexKey,
                                   !.outcome = "returned"]]
          /\ UNCHANGED keyGen
     ELSE \E readOK \in BOOLEAN :
            IF keyfile # 0 /\ readOK
            THEN /\ cachedMasterKey' = keyfile
                 /\ kcall' = [kcall EXCEPT ![c] =
                                [@ EXCEPT !.pc = "done", !.result = keyfile,
                                          !.outcome = "returned"]]
                 /\ UNCHANGED keyGen
            ELSE \E k \in Keys :
                   /\ cachedMasterKey' = k
                   /\ kcall' = [kcall EXCEPT ![c] =
                                  [@ EXCEPT !.pc = "saving", !.key = k]]
                   /\ keyGen' = keyGen + 1
  /\ UNCHANGED <<monVars, osVars, alive, query, closeVars, startVars, waitVars,
                 keychain, keyfile>>

\* keytar.setPassword writes the keychain in the background, or it fails
KeychainWrite(c) ==
  /\ kcall[c].pc = "saving"
  /\ \E ok \in BOOLEAN :
       /\ keychain' = IF ok THEN kcall[c].key ELSE keychain
       /\ kcall' = [kcall EXCEPT ![c] =
                      [@ EXCEPT !.pc = "saved", !.keytarSaved = ok]]
  /\ UNCHANGED <<monVars, osVars, alive, query, closeVars, startVars, waitVars,
                 cachedMasterKey, keyfile, keyGen>>

\* the call resumes after setPassword: when the keychain did not take the
\* key it is written to the fallback file, and when that fails too the call
\* throws; else it returns cachedMasterKey
KeyAfterSave(c) ==
  /\ kcall[c].pc = "saved"
  /\ IF kcall[c].keytarSaved
     THEN /\ kcall' = [kcall EXCEPT ![c] =
                         [@ EXCEPT !.pc = "done", !.result = cachedMasterKey,
                                   !.outcome = "returned"]]
          /\ UNCHANGED keyfile
     ELSE \E writeOK \in BOOLEAN :
            IF writeOK
            THEN /\ keyfile' = kcall[c].key
                 /\ kcall' = [kcall EXCEPT ![c] =
                                [@ EXCEPT !.pc = "done", !.result = cachedMasterKey,
                                          !.outcome = "returned"]]
            ELSE /\ kcall' = [kcall EXCEPT ![c] =
                                [@ EXCEPT !.pc = "done", !.outcome = "threw"]]
                 /\ UNCHANGED keyfile
  /\ UNCHANGED <<monVars, osVars, alive, query, closeVars, startVars, waitVars,
                 cachedMasterKey, keychain, keyGen>>

\* the process starts with an empty cache; the keychain and the file hold
\* what earlier runs have left
InitKey ==
  /\ platform = "linux"
  /\ wsl = FALSE
  /\ image = [p \in Pids |-> DefaultImage(p)]
  /\ alive = Pids
  /\ now = 0
  /\ exitTime = 0
  /\ query = NoQuery
  /\ cur = 0
  /\ close = [c \in Callers |-> IdleCall]
  /\ start = NoStart
  /\ wait = NoWait
  /\ cachedMasterKey = 0
  /\ keychain \in {0} \cup Keys
  /\ keyfile \in {0} \cup Keys
  /\ kcall = [c \in KeyCallers |-> NoKeyCall]
  /\ keyGen = 0
  /\ InitMonitorIdle

NextKey ==
  \/ \E c \in KeyCallers : KeyBegin(c)
  \/ \E c \in KeyCallers : KeychainRead(c)
  \/ \E c \in KeyCallers : KeyAfterRead(c)
  \/ \E c \in KeyCallers : KeychainWrite(c)
  \/ \E c \in KeyCallers : KeyAfterSave(c)

SpecKey == InitKey /\ [][NextKey]_vars

\* ------------------------------------------------------------ CloudMonitor
\* a start() that never takes the early return
alreadyStartedNever(id) == FALSE

\* `if (this.intervalId) return`: a Timeout object is truthy, null is not
alreadyStarted(id) == id # 0

\* start(): nothing when started; else the initial poll is started and the
\* interval timer is scheduled and kept in intervalId
MonitorStart ==
  /\ IF alreadyStarted(intervalId)
     THEN /\ monitor' = [monitor EXCEPT !.op = "start",
                                        !.wasStarted = intervalId # 0,
                                        !.timersBefore = timers,
                                        !.pollsBefore = monitor.polls]
          /\ UNCHANGED <<intervalId, timers>>
     ELSE /\ monitor.timers < MaxTimers
          /\ monitor.polls < MaxPolls
          /\ monitor' = [monitor EXCEPT !.op = "start",
                                        !.wasStarted = intervalId # 0,
                                        !.timersBefore = timers,
                                        !.pollsBefore = monitor.polls,
                                        !.polls = @ + 1,
                                        !.running = @ + 1,
                                        !.timers = @ + 1]
          /\ intervalId' = monitor.timers + 1
          /\ timers' = timers \cup {monitor.timers + 1}
  /\ UNCHANGED <<keyVars, osVars, alive, query, closeVars, startVars, waitVars>>

\* stop(): clearInterval(intervalId) and intervalId = null when started,
\* else nothing
MonitorStop ==
  /\ IF intervalId # 0
     THEN /\ timers' = timers \ {intervalId}
          /\ intervalId' = 0
     ELSE UNCHANGED <<intervalId, timers>>
  /\ monitor' = [monitor EXCEPT !.op = "stop",
                                !.wasStarted = intervalId # 0,
                                !.timersBefore = timers,
                                !.pollsBefore = monitor.polls]
  /\ UNCHANGED <<keyVars, osVars, alive, query, closeVars, startVars, waitVars>>

\* a scheduled interval timer fires: its callback starts a poll
TimerFire(t) ==
  /\ t \in timers
  /\ monitor.polls < MaxPolls
  /\ monitor' = [monitor EXCEPT !.op = "fire",
                                !.wasStarted = intervalId # 0,
                                !.timersBefore = timers,
                                !.pollsBefore = monitor.polls,
                                !.fired = t,
                                !.polls = @ + 1,
                                !.running = @ + 1]
  /\ UNCHANGED <<intervalId, timers>>
  /\ UNCHANGED <<keyVars, osVars, alive, query, closeVars, startVars, waitVars>>

\* a poll() settles (its rejection is caught and logged)
PollSettle ==
  /\ monitor.running > 0
  /\ monitor' = [monitor EXCEPT !.running = @ - 1]
  /\ UNCHANGED <<intervalId, timers>>
  /\ UNCHANGED <<keyVars, osVars, alive, query, closeVars, startVars, waitVars>>

InitMonitor ==
  /\ platform \in Platforms
  /\ wsl = FALSE
  /\ image = [p \in Pids |-> DefaultImage(p)]
  /\ alive = Pids
  /\ now = 0
  /\ exitTime = 0
  /\ query = NoQuery
  /\ cur = 0
  /\ close = [c \in Callers |-> IdleCall]
  /\ start = NoStart
  /\ wait = NoWait
  /\ InitKeyIdle
  /\ InitMonitorIdle

NextMonitor ==
  \/ MonitorStart
  \/ MonitorStop
  \/ \E t \in 1..MaxTimers : TimerFire(t)
  \/ PollSettle

SpecMonitor == InitMonitor /\ [][NextMonitor]_vars

\* ================================================================== claims
snapPids(l) == {l[k].pid : k \in 1..Len(l)}

\* C1: closeAntigravity never raises, whatever the platform and the outcomes
\* of the graceful request, the verification discovery, the per-pid kills
\* and the fallback command: no call is ever in a state where an error has
\* left it.
ThmC1 == \A c \in Callers : ~close[c].raised

\* a call has returned after a failed graceful request and a failed kill
WitC1 ==
  \E c \in Callers :
    /\ close[c].pc = "done"
    /\ close[c].graceful = "failed"
    /\ \E k \in 1..Len(close[c].kills) : ~close[c].kills[k].ok

\* C2: startAntigravity called while isProcessRunning reports true issues
\* no launch (neither the URI dispatch nor the executable launch) and
\* returns normally, whichever the value of useUri.
ThmC2 ==
  (start.pc # "idle" /\ start.running) =>
    /\ start.pc = "done"
    /\ start.outcome = "returned"
    /\ start.uriCalls = 0
    /\ start.execCalls = 0

\* a call with useUri that found the application running and has returned
WitC2 == start.pc = "done" /\ start.running /\ start.useUri

\* C3: isProcessRunning returns true iff the list its discovery returned is
\* non-empty; it never raises, and it returns false when the OS query failed.
ThmC3 ==
  query.done =>
    /\ ~query.threw
    /\ query.value = (Len(query.list) > 0)
    /\ (query.failed => query.value = FALSE)

\* a query whose OS query failed while a target process was running
WitC3 ==
  /\ query.done
  /\ query.failed
  /\ filteredList(platform, image, alive, 1) # <<>>

\* C4 (as claimed): when the target was running at the call and is gone
\* since a moment before the deadline, _waitForProcessExit returns normally,
\* and does so before the deadline.
CexC4 ==
  (/\ wait.pc = "done"
   /\ wait.ranAtStart
   /\ filteredList(platform, image, alive, 1) = <<>>
   /\ exitTime < wait.startTime + wait.timeoutMs)
  => (/\ wait.outcome = "resolved"
      /\ wait.doneAt < wait.startTime + wait.timeoutMs)

\* C4 (amended): _waitForProcessExit returns normally when the target is
\* gone since a moment before the start of its last poll; and it returns
\* normally only after a poll that started before the deadline and found
\* the target not running.
ThmC4 ==
  wait.pc = "done" =>
    /\ (/\ wait.evals > 0
        /\ filteredList(platform, image, alive, 1) = <<>>
        /\ exitTime < wait.lastPollAt)
       => wait.outcome = "resolved"
    /\ wait.outcome = "resolved" =>
         (/\ wait.evals > 0
          /\ ~wait.last
          /\ wait.lastPollAt - wait.startTime < wait.timeoutMs)

\* the target was running at the call, exited during the wait, and a later
\* poll resolved the call
WitC4 ==
  /\ wait.pc = "done"
  /\ wait.outcome = "resolved"
  /\ wait.ranAtStart
  /\ wait.evals >= 2
  /\ filteredList(platform, image, alive, 1) = <<>>
  /\ exitTime > wait.startTime
  /\ exitTime < wait.lastPollAt

\* C5: _waitForProcessExit always terminates, and when every evaluation of
\* isProcessRunning reported true it ends with the timeout error.
ThmC5 ==
  /\ (wait.pc = "loop") ~> (wait.pc = "done")
  /\ [](wait.pc = "done" /\ wait.allTrue => wait.outcome = "timeout")

\* a call that polled several times, always found the target running, and
\* ended with the timeout error
WitC5 ==
  /\ wait.pc = "done"
  /\ wait.outcome = "timeout"
  /\ wait.evals >= 2
  /\ wait.allTrue

\* C6 (as claimed): on every platform startAntigravity throws exactly when
\* it reached the executable launch and that launch could not be
\* dispatched; a failed URI dispatch alone is never surfaced.
CexC6 ==
  start.pc = "done" =>
    ((start.execCalls = 1 /\ start.execFailure # "none") <=> start.outcome = "threw")

\* C7: when the discovery yields an empty list, isProcessRunning is false and
\* closeAntigravity issues no kill call at all (no per-pid kill and no
\* broad-match kill).
ThmC7 ==
  /\ (query.done /\ query.list = <<>> => query.value = FALSE)
  /\ \A c \in Callers :
       (close[c].verified /\ close[c].snap = <<>>) =>
         (close[c].kills = <<>> /\ close[c].fallback = 0)

\* a call has returned after a successful discovery that found nothing, and
\* a query found nothing either
WitC7 ==
  /\ query.done /\ ~query.failed /\ query.list = <<>>
  /\ \E c \in Callers :
       /\ close[c].pc = "done"
       /\ close[c].verified /\ ~close[c].failed /\ close[c].snap = <<>>

\* C8 (as claimed): after a closeAntigravity call has returned, the next
\* isProcessRunning reports false, and a call made after another has returned
\* issues no force kill.  No process is started in this specification and a
\* killed process exits.
CexC8 ==
  /\ (query.done /\ query.afterClose => query.value = FALSE)
  /\ \A c \in Callers : close[c].after => close[c].kills = <<>>

\* C9: two overlapping closeAntigravity calls: neither raises nor falls back,
\* a kill that fails (the pid is already gone) is ignored, so that a returned
\* call has attempted every record of its list, and once both have returned
\* no process of either list is running.
ThmC9 ==
  /\ \A c \in Callers :
       /\ ~close[c].raised
       /\ close[c].fallback = 0
       /\ (close[c].pc = "done" => Len(close[c].kills) = Len(close[c].snap))
  /\ (\A c \in Callers : close[c].pc = "done") =>
       \A c \in Callers : snapPids(close[c].snap) \cap alive = {}

\* both calls have returned, they overlapped, and a kill of the second was
\* addressed to a pid the first had killed
WitC9 ==
  /\ \A c \in Callers : close[c].pc = "done" /\ ~close[c].after
  /\ \E j \in 1..Len(close[1].kills), k \in 1..Len(close[2].kills) :
       /\ close[1].kills[j].ok
       /\ ~close[2].kills[k].ok
       /\ close[1].kills[j].pid = close[2].kills[k].pid

\* C10: the list getRunningAntigravityProcesses returns never holds a record
\* whose pid is the caller's pid, whatever the platform and the image of the
\* caller.
ThmC10 ==
  query.done => \A k \in 1..Len(query.list) : query.list[k].pid # currentPid

\* a discovery that returned targets while the caller itself runs the image
\* of the target application
WitC10 ==
  /\ query.done
  /\ ~query.failed
  /\ image[currentPid] = 2
  /\ Len(query.list) > 0

\* C11: the list getRunningAntigravityProcesses returns never holds a record
\* whose command line, in lower case, contains "antigravity manager",
\* whatever the platform and the other rules the record satisfies.
ThmC11 ==
  query.done =>
    \A k \in 1..Len(query.list) :
      ~includes(toLowerCase(query.list[k].cmd), sLantigravityManager)

\* a discovery on Windows that found a target while a process other than
\* the caller runs Antigravity.exe from the manager's directory
WitC11 ==
  /\ query.done
  /\ ~query.failed
  /\ platform = "win32"
  /\ Len(query.list) > 0
  /\ \E p \in alive \ {currentPid} : image[p] = 9

\* C12: the compatibility layer launch translates every path
\* /mnt/<lower-case letter>/<rest> into <the letter in upper case>:\ followed
\* by <rest> with every '/' replaced by '\'; in particular
\* /mnt/c/Program Files/App/App.exe becomes C:\Program Files\App\App.exe.
ThmC12 ==
  LET p == start.execPath
      w == start.winPath
  IN (start.pc = "done" /\ start.via = "cmd.exe") =>
       /\ (/\ Len(p) >= 7
           /\ p[1] = "/" /\ p[2] = "m" /\ p[3] = "n" /\ p[4] = "t" /\ p[5] = "/"
           /\ p[6] \in {UpperToLower[u] : u \in DOMAIN UpperToLower}
           /\ p[7] = "/")
          => /\ Len(w) = Len(p) - 4
             /\ w[1] \in DOMAIN UpperToLower
             /\ UpperToLower[w[1]] = p[6]
             /\ w[2] = ":"
             /\ w[3] = "\\"
             /\ \A k \in 8..Len(p) : w[k - 4] = (IF p[k] = "/" THEN "\\" ELSE p[k])
       /\ p = sExamplePath =>
            w = <<"C",":","\\","P","r","o","g","r","a","m"," ","F","i","l","e","s",
                  "\\","A","p","p","\\","A","p","p",".","e","x","e">>

\* the compatibility layer launch was given /mnt/c/Program Files/App/App.exe
WitC12 ==
  /\ start.pc = "done"
  /\ start.via = "cmd.exe"
  /\ start.execCalls = 1
  /\ start.execPath = sExamplePath

\* C13 (as claimed): a closeAntigravity call whose process discovery was
\* unavailable (the OS query failed) has issued exactly one broad-match
\* kill command when it returns.
CexC13 ==
  \A c \in Callers :
    (close[c].pc = "done" /\ close[c].failed) => close[c].fallback = 1

\* C14: in the force-kill loop the attempts follow the verification list
\* record by record, one attempt per record addressed by its pid; a failed
\* attempt neither ends the loop (a returned call has attempted every
\* record) nor triggers the broad-match fallback.
ThmC14 ==
  \A c \in Callers :
    /\ Len(close[c].kills) <= Len(close[c].snap)
    /\ \A k \in 1..Len(close[c].kills) : close[c].kills[k].pid = close[c].snap[k].pid
    /\ (close[c].pc = "done" => Len(close[c].kills) = Len(close[c].snap))
    /\ close[c].fallback = 0

\* a returned call whose first kill failed and whose second kill succeeded
WitC14 ==
  \E c \in Callers :
    /\ close[c].pc = "done"
    /\ Len(close[c].kills) >= 2
    /\ ~close[c].kills[1].ok
    /\ close[c].kills[2].ok

\* C15 (as claimed): a closeAntigravity call that issued a graceful quit
\* request has made the fixed pause before its verification discovery.
CexC15 ==
  \A c \in Callers :
    (close[c].verified /\ close[c].graceful # "none") => close[c].paused

\* C19: every per-pid kill of a closeAntigravity call is addressed to a pid
\* of the list of that call's verification discovery, which was made after
\* the graceful stage, and never to the pid of the caller.
ThmC19 ==
  \A c \in Callers :
    \A k \in 1..Len(close[c].kills) :
      /\ close[c].verified
      /\ close[c].kills[k].pid \in snapPids(close[c].snap)
      /\ close[c].kills[k].pid # currentPid

\* a call has killed processes while the caller itself runs an image that
\* the rules of the platform take for the target
WitC19 ==
  /\ platform # "darwin"
  /\ image[currentPid] = 3
  /\ \E c \in Callers :
       /\ close[c].pc = "done"
       /\ close[c].graceful # "ok"
       /\ Len(close[c].kills) > 0

\* C16: a startAntigravity call that found the target not running and has
\* finished: with useUri and a dispatch that returned without error it made
\* one URI dispatch and no executable launch; with useUri and a failed
\* dispatch it made one URI dispatch and one executable launch; without
\* useUri it made no URI dispatch and one executable launch.  At any time
\* at most one dispatch of the call has succeeded.
ThmC16 ==
  /\ (start.pc = "done" /\ ~start.running) =>
       /\ (start.useUri /\ start.uriOK) =>
            (start.uriCalls = 1 /\ start.execCalls = 0)
       /\ (start.useUri /\ ~start.uriOK) =>
            (start.uriCalls = 1 /\ start.execCalls = 1)
       /\ ~start.useUri => (start.uriCalls = 0 /\ start.execCalls = 1)
  /\ start.uriCalls <= 1
  /\ start.execCalls <= 1
  /\ ~(start.uriOK /\ start.execCalls > 0)

\* the call has returned right after a successful URI dispatch
WitC16 ==
  /\ start.pc = "done"
  /\ ~start.running
  /\ start.useUri
  /\ start.uriOK
  /\ start.uriCalls = 1
  /\ start.execCalls = 0

\* C17: on win32 a discovery runs the modern structured query, and runs the
\* legacy one exactly when the modern one failed (so never after a modern
\* query that succeeded); when both failed the discovery does not raise and
\* returns the empty list, whatever is running.
ThmC17 ==
  (query.done /\ platform = "win32") =>
    /\ query.modern
    /\ (query.legacy <=> query.cimFailed)
    /\ ((query.cimFailed /\ query.wmiFailed) =>
          (~query.discThrew /\ query.failed /\ query.list = <<>>))
    /\ (~query.cimFailed => ~query.failed)

\* both structured queries failed while a target process was running
WitC17 ==
  /\ query.done
  /\ platform = "win32"
  /\ query.cimFailed
  /\ query.wmiFailed
  /\ query.list = <<>>
  /\ \E p \in alive \ {currentPid} : image[p] = 9

\* C18 (as claimed): for every timeoutMs >= 0, a _waitForProcessExit call
\* that failed with the timeout error has evaluated isProcessRunning() at
\* least once, its last evaluation reported running, and the target was
\* running when the call was made.
CexC18 ==
  wait.outcome = "timeout" =>
    (wait.evals > 0 /\ wait.last /\ wait.ranAtStart)

\* C20 (as claimed): the getOrGenerateMasterKey calls of one process that
\* have returned have all returned the same key, also when they overlap,
\* and the process has generated at most one key.
CexC20 ==
  /\ \A c, d \in KeyCallers :
       (kcall[c].outcome = "returned" /\ kcall[d].outcome = "returned") =>
         kcall[c].result = kcall[d].result
  /\ keyGen <= 1

\* C21 (as claimed): whenever cachedMasterKey is non-null, that key is the
\* one held by the keychain or by the fallback file; and a
\* getOrGenerateMasterKey call that threw because the new key could be saved
\* to neither has left the cache null.
CexC21 ==
  /\ cachedMasterKey # 0 =>
       (keychain = cachedMasterKey \/ keyfile = cachedMasterKey)
  /\ \A c \in KeyCallers :
       kcall[c].outcome = "threw" => cachedMasterKey = 0

\* C22: after any sequence of start() and stop() calls at most one interval
\* timer is scheduled, and it is the one kept in intervalId; a start() while
\* started has scheduled no timer and started no poll; a start() while
\* stopped has scheduled one timer and started one poll; a stop() while
\* stopped has changed nothing; and a timer callback that started a poll
\* did so while the service was started, never after stop().
ThmC22 ==
  /\ Cardinality(timers) <= 1
  /\ timers = (IF intervalId = 0 THEN {} ELSE {intervalId})
  /\ (monitor.op = "start" /\ monitor.wasStarted) =>
       (timers = monitor.timersBefore /\ monitor.polls = monitor.pollsBefore)
  /\ (monitor.op = "start" /\ ~monitor.wasStarted) =>
       /\ monitor.timersBefore = {}
       /\ Cardinality(timers) = 1
       /\ monitor.polls = monitor.pollsBefore + 1
  /\ (monitor.op = "stop" /\ ~monitor.wasStarted) =>
       (timers = monitor.timersBefore /\ monitor.polls = monitor.pollsBefore)
  /\ (monitor.op = "stop") => (timers = {} /\ intervalId = 0)
  /\ (monitor.op = "fire") =>
       (monitor.wasStarted /\ monitor.fired = intervalId)

\* start() is called while started, after the service has been stopped and
\* started again and the second timer has fired
WitC22 ==
  /\ monitor.op = "start"
  /\ monitor.wasStarted
  /\ monitor.timers = 2
  /\ monitor.fired = 2
  /\ timers = {2}

====
